---- MODULE Spec2Model ----
(***************************************************************************)
(* Model of the latch-seqtk workflow (wf/__init__.py, wf/helper.py).       *)
(*                                                                         *)
(* Python strings are modelled as sequences of one-character strings, so   *)
(* that str(), basename(), endswith(), shlex.join() and str.replace() are  *)
(* computed rather than assumed.  Optional values are sequences of length  *)
(* at most one: <<>> is None and <<x>> is the value x.  A float is         *)
(* represented by its number of tenths (1 is 0.1, 10 is 1.0).              *)
(***************************************************************************)
EXTENDS Integers, Sequences, FiniteSets, TLC

VARIABLES
    entry,           \* "seqtk_task": the task is called directly; "seqtk": the workflow
    command,         \* the command argument
    seed,            \* int
    fraction,        \* Optional[float]
    num_reads,       \* Optional[int]
    num_bases,       \* Optional[int]
    input_file,      \* Optional[LatchFile] (R1)
    output_file,     \* Optional[LatchFile] (R1)
    input_file_r2,   \* Optional[LatchFile]
    output_file_r2,  \* Optional[LatchFile]
    lane,            \* which seqtk_task call of the list is running (1 = R1, 2 = R2)
    pc,              \* "call", "running" (inside Popen), "exited", "done", "raised"
    unfiltered,      \* local cmd of seqtk_task before the filter of line 76
    cmd,             \* local cmd of seqtk_task after the filter (handed to execute_cmd)
    resolved,        \* files latch2local was called on, in order
    messages,        \* message(...) calls, in order
    spawned,         \* subprocess.Popen calls, in order
    console,         \* what execute_cmd printed
    status,          \* exit status of the subprocess of the running call: <<>> until it exits
    results,         \* values returned by the seqtk_task calls so far
    raised           \* the exception that ended the run: <<>> or <<exception>>

vars == <<entry, command, seed, fraction, num_reads, num_bases, input_file,
          output_file, input_file_r2, output_file_r2, lane, pc, unfiltered, cmd,
          resolved, messages, spawned, console, status, results, raised>>

params == <<entry, command, seed, fraction, num_reads, num_bases, input_file,
            output_file, input_file_r2, output_file_r2>>

----------------------------------------------------------------------------
(* Bounds of the model *)

MaxStatus == 2
MaxTenths == 1
MaxBases == 1

----------------------------------------------------------------------------
(* Python values *)

None == <<>>

Some(x) == <<x>>

\* truth value of an Optional[int] or Optional[float]: None and 0 are false
Truthy(o) == o # None /\ o[1] # 0

Digits == <<"0", "1", "2", "3", "4", "5", "6", "7", "8", "9">>

RECURSIVE NatStr(_)
NatStr(n) == IF n < 10 THEN <<Digits[n + 1]>>
             ELSE NatStr(n \div 10) \o <<Digits[(n % 10) + 1]>>

IntStr(n) == IF n < 0 THEN <<"-">> \o NatStr(0 - n) ELSE NatStr(n)

\* str() of the float t/10
FloatStr(t) ==
    LET a == IF t < 0 THEN 0 - t ELSE t
    IN  (IF t < 0 THEN <<"-">> ELSE <<>>)
        \o NatStr(a \div 10) \o <<".">> \o <<Digits[(a % 10) + 1]>>

NoneStr == <<"N","o","n","e">>

\* str(num_reads), str(num_bases)
StrOptInt(o) == IF o = None THEN NoneStr ELSE IntStr(o[1])

EndsWith(s, suf) ==
    /\ Len(s) >= Len(suf)
    /\ SubSeq(s, Len(s) - Len(suf) + 1, Len(s)) = suf

SetMax(S) == CHOOSE m \in S : \A x \in S : x <= m

basename(p) ==
    LET slashes == {i \in 1..Len(p) : p[i] = "/"}
        last == IF slashes = {} THEN 0 ELSE SetMax(slashes)
    IN  SubSeq(p, last + 1, Len(p))

RECURSIVE StripSlashes(_)
StripSlashes(p) ==
    IF Len(p) > 1 /\ p[Len(p)] = "/" THEN StripSlashes(SubSeq(p, 1, Len(p) - 1))
    ELSE p

Cwd == <<"/","r","o","o","t">>

\* str(Path(f).resolve()) for a file whose local path has no symbolic link,
\* "." or ".." component
latch2local(f) ==
    IF f.path[1] = "/" THEN StripSlashes(f.path)
    ELSE Cwd \o <<"/">> \o StripSlashes(f.path)

RECURSIVE Join(_, _)
Join(sep, toks) ==
    IF toks = <<>> THEN <<>>
    ELSE IF Len(toks) = 1 THEN toks[1]
    ELSE toks[1] \o sep \o Join(sep, Tail(toks))

RECURSIVE Replace(_, _, _)
Replace(s, old, new) ==
    IF Len(s) < Len(old) THEN s
    ELSE IF SubSeq(s, 1, Len(old)) = old
         THEN new \o Replace(SubSeq(s, Len(old) + 1, Len(s)), old, new)
         ELSE <<s[1]>> \o Replace(Tail(s), old, new)

SafeChars == {"a","b","c","d","e","f","g","h","i","j","k","l","m","n","o","p",
              "q","r","s","t","u","v","w","x","y","z","0","1","2","3","4","5",
              "6","7","8","9","@","%","+","=",":",",",".","/","-","_"}

quote(s) ==
    IF s = <<>> THEN <<"'", "'">>
    ELSE IF \A i \in 1..Len(s) : s[i] \in SafeChars THEN s
    ELSE <<"'">> \o Replace(s, <<"'">>, <<"'", "\"", "'", "\"", "'">>) \o <<"'">>

shlex_join(toks) == Join(<<" ">>, [i \in 1..Len(toks) |-> quote(toks[i])])

\* helper.py lines 17-24
cmd_str(toks) ==
    Replace(
      Replace(
        Replace(
          Replace(shlex_join(toks), <<" ","'",">","'"," ">>, <<" ",">"," ">>),
          <<" ","'","<","'"," ">>, <<" ","<"," ">>),
        <<" ","'","2",">","&","1","'"," ">>, <<" ","2",">","&","1"," ">>),
      <<" ","'","|","'"," ">>, <<" ","|"," ">>)

----------------------------------------------------------------------------
(* The Command enumeration and the values a caller can pass as command *)

SAMPLE == <<"s","a","m","p","l","e">>
SEQ == <<"s","e","q">>

Command_sample == [cls |-> "Command", value |-> SAMPLE]
Command_seq == [cls |-> "Command", value |-> SEQ]

\* a member of another enumeration (it has a value attribute)
OtherEnumMember == [cls |-> "OtherEnum", value |-> <<"f","q","c","h","k">>]
\* a plain string (it has no value attribute)
PlainString == [cls |-> "str", value |-> SAMPLE]

Command == {Command_sample, Command_seq}

HasValueAttr(c) == c.cls # "str"

----------------------------------------------------------------------------
(* Inputs *)

LatchFile(path, remote_path) == [path |-> path, remote_path |-> remote_path]

InputFiles == {
    LatchFile(<<"/","t","/","a">>, <<"l",":","/","d","/","a">>),
    LatchFile(<<"t","/","c","/">>, <<"l",":","/","e","/","a">>),
    LatchFile(<<"/","t","/","b">>, <<"l",":","/","d","/","a"," ","b">>) }

OutputFiles == {
    LatchFile(<<"l",":","/","o","/","x",".","g","z">>, <<"l",":","/","o","/","x",".","g","z">>),
    LatchFile(<<"l",":","/","o","/","g","z">>, <<"l",":","/","o","/","g","z">>) }

Opt(S) == {None} \cup {Some(x) : x \in S}

Seeds == {42, -2}
Fractions == Opt(0..MaxTenths)
NumReads == Opt({0, 100})
NumBases == Opt((0..MaxBases) \cup {60})
Statuses == 0..MaxStatus

----------------------------------------------------------------------------
(* seqtk_task *)

NumCalls == IF entry = "seqtk" THEN 2 ELSE 1

CurInput == IF lane = 1 THEN input_file ELSE input_file_r2
CurOutput == IF lane = 1 THEN output_file ELSE output_file_r2

\* variant: the name is taken from the local path of the input
LocalOutput_LocalName(inp) == <<"/","r","o","o","t","/">> \o basename(inp.path)

\* variant: one fixed name for every input
LocalOutput_Fixed(inp) == <<"/","r","o","o","t","/","o","u","t">>

\* the fixed local output path, lines 72 and 81
LocalOutput(inp) == <<"/","r","o","o","t","/">> \o basename(inp.remote_path)

\* variant: the flag is given whenever num_reads is not None
PairedFlag_NotNone == IF num_reads # None THEN <<"-","2">> ELSE <<>>

\* line 48
PairedFlag == IF Truthy(num_reads) THEN <<"-","2">> ELSE <<>>

\* line 50
Amount == IF Truthy(fraction) THEN FloatStr(fraction[1]) ELSE StrOptInt(num_reads)

\* variant: the option is given whenever num_bases is not None
LineOption_NotNone ==
    IF num_bases # None THEN << <<"-","l">>, StrOptInt(num_bases) >> ELSE <<>>

\* line 56
LineOption == IF Truthy(num_bases) THEN << <<"-","l">>, StrOptInt(num_bases) >> ELSE <<>>

\* lines 43-51
SampleCmd(inp) ==
    << <<"s","e","q","t","k">>,
       command.value,
       <<"-","s">>,
       IntStr(seed),
       PairedFlag,
       latch2local(inp),
       Amount >>

\* lines 53-58
SeqCmd(inp) ==
    << <<"s","e","q","t","k">>, command.value >>
    \o LineOption
    \o << latch2local(inp) >>

\* variant: the suffix is tested without its dot
GzipStage_NoDot(out) ==
    IF EndsWith(out.remote_path, <<"g","z">>)
    THEN << <<"|">>, <<"i","g","z","i","p">> >> ELSE <<>>

\* lines 62-68
GzipStage(out) ==
    IF EndsWith(out.remote_path, <<".","g","z">>)
    THEN << <<"|">>, <<"i","g","z","i","p">> >> ELSE <<>>

\* lines 69-74
Redirect(inp) == << <<">">>, LocalOutput(inp) >>

\* lines 42-74: the list before the filter
BuildCmd(inp, out) ==
    (IF command = Command_sample THEN SampleCmd(inp) ELSE SeqCmd(inp))
    \o GzipStage(out) \o Redirect(inp)

\* variant: the list is handed over as built
FilterEmpty_Identity(toks) == toks

\* line 76
FilterEmpty(toks) == SelectSeq(toks, LAMBDA e : e # <<>>)

\* line 77
InfoMessage(toks) ==
    [typ |-> "info", title |-> "Running seqtk",
     body |-> <<"R","u","n","n","i","n","g"," ">> \o Join(<<" ">>, toks)]

\* control returns to the caller of seqtk_task with value ret
Return(ret) ==
    /\ results' = Append(results, ret)
    /\ IF lane = NumCalls
       THEN pc' = "done" /\ lane' = lane
       ELSE pc' = "call" /\ lane' = lane + 1

\* variant: the input path is resolved before the files are tested
SeqtkTaskSkip_ResolveFirst ==
    /\ pc = "call"
    /\ CurInput = None \/ CurOutput = None
    /\ Return(None)
    /\ resolved' = IF CurInput # None THEN Append(resolved, CurInput[1]) ELSE resolved
    /\ UNCHANGED <<params, unfiltered, cmd, messages, spawned, console, status, raised>>

\* lines 39-40
SeqtkTaskSkip ==
    /\ pc = "call"
    /\ CurInput = None \/ CurOutput = None
    /\ Return(None)
    /\ UNCHANGED <<params, unfiltered, cmd, resolved, messages, spawned, console, status, raised>>

\* line 60
SeqtkTaskUnsupported ==
    /\ pc = "call"
    /\ CurInput # None /\ CurOutput # None
    /\ command \notin Command
    /\ raised' = IF HasValueAttr(command)
                 THEN Some([type |-> "ValueError",
                            args |-> << <<"U","n","s","u","p","p","o","r","t","e","d"," ",
                                          "c","o","m","m","a","n","d"," ">> \o command.value >>])
                 ELSE Some([type |-> "AttributeError", args |-> <<>>])
    /\ pc' = "raised"
    /\ UNCHANGED <<params, lane, unfiltered, cmd, resolved, messages, spawned, console, status,
                   results>>

\* lines 42-78 and helper.py lines 15-38: build the command, announce it, spawn it
SeqtkTaskSpawn ==
    /\ pc = "call"
    /\ CurInput # None /\ CurOutput # None
    /\ command \in Command
    /\ LET inp == CurInput[1]
           out == CurOutput[1]
           c == FilterEmpty(BuildCmd(inp, out))
       IN  /\ unfiltered' = BuildCmd(inp, out)
           /\ cmd' = c
           /\ resolved' = Append(resolved, inp)
           /\ messages' = Append(messages, InfoMessage(c))
           /\ console' = Append(console, [stream |-> "stdout", text |-> cmd_str(c)])
           /\ spawned' = Append(spawned, [lane |-> lane, args |-> cmd_str(c), cmd |-> c])
    /\ status' = None
    /\ pc' = "running"
    /\ UNCHANGED <<params, lane, results, raised>>

\* the subprocess terminates and process.wait() of helper.py line 45 returns
ProcessExit ==
    /\ pc = "running"
    /\ \E st \in Statuses : status' = Some(st)
    /\ pc' = "exited"
    /\ UNCHANGED <<params, lane, unfiltered, cmd, resolved, messages, spawned, console,
                   results, raised>>

\* variant: only a status above 1 counts as a failure
Failed_AboveOne(st) == st > 1

\* helper.py line 46
Failed(st) == st # 0

\* helper.py lines 46-48: the status is reported and raised
ExecuteCmdFailure ==
    /\ pc = "exited"
    /\ Failed(status[1])
    /\ console' = Append(console, [stream |-> "stderr", text |-> IntStr(status[1])])
    /\ raised' = Some([type |-> "CalledProcessError", args |-> <<status[1], cmd>>])
    /\ pc' = "raised"
    /\ UNCHANGED <<params, lane, unfiltered, cmd, resolved, messages, spawned, status, results>>

\* helper.py line 46 with status 0, then lines 80-83 of seqtk_task
ExecuteCmdSuccess ==
    /\ pc = "exited"
    /\ ~Failed(status[1])
    /\ Return(Some(LatchFile(LocalOutput(CurInput[1]), CurOutput[1].remote_path)))
    /\ UNCHANGED <<params, unfiltered, cmd, resolved, messages, spawned, console, status, raised>>

----------------------------------------------------------------------------

Init ==
    /\ entry \in {"seqtk_task", "seqtk"}
    /\ command \in Command \cup {OtherEnumMember, PlainString}
    /\ seed \in Seeds
    /\ fraction \in Fractions
    /\ num_reads \in NumReads
    /\ num_bases \in NumBases
    /\ input_file \in IF entry = "seqtk" THEN {Some(f) : f \in InputFiles} ELSE Opt(InputFiles)
    /\ output_file \in IF entry = "seqtk" THEN {Some(f) : f \in OutputFiles} ELSE Opt(OutputFiles)
    /\ input_file_r2 \in IF entry = "seqtk" THEN Opt(InputFiles) ELSE {None}
    /\ output_file_r2 \in IF entry = "seqtk" THEN Opt(OutputFiles) ELSE {None}
    /\ lane = 1
    /\ pc = "call"
    /\ unfiltered = <<>>
    /\ cmd = <<>>
    /\ resolved = <<>>
    /\ messages = <<>>
    /\ spawned = <<>>
    /\ console = <<>>
    /\ status = None
    /\ results = <<>>
    /\ raised = None

Next ==
    \/ SeqtkTaskSkip
    \/ SeqtkTaskUnsupported
    \/ SeqtkTaskSpawn
    \/ ProcessExit
    \/ ExecuteCmdSuccess
    \/ ExecuteCmdFailure

Spec == Init /\ [][Next]_vars

----------------------------------------------------------------------------
(* Properties *)

InputOf(l) == IF l = 1 THEN input_file[1] ELSE input_file_r2[1]
OutputOf(l) == IF l = 1 THEN output_file[1] ELSE output_file_r2[1]

Has(toks, t) == \E i \in DOMAIN toks : toks[i] = t

\* the calls whose command was assembled and spawned
SampleRuns == {i \in DOMAIN spawned : command = Command_sample}
SeqRuns == {i \in DOMAIN spawned : command = Command_seq}

\* C1: a call of seqtk_task with a null input_file or a null output_file
\* returns null, and resolves no path, emits no message and spawns no
\* subprocess, whatever the other arguments are.
C1_SkipOnAbsentFile ==
    [][(pc = "call" /\ (CurInput = None \/ CurOutput = None))
        => /\ results' = Append(results, None)
           /\ raised' = None
           /\ UNCHANGED <<resolved, messages, spawned, console>>]_vars

C1_Witness ==
    /\ entry = "seqtk_task" /\ pc = "done"
    /\ input_file = None /\ output_file # None
    /\ command = PlainString
    /\ results = <<None>> /\ spawned = <<>>

\* C2: once the subprocess has exited with a non-zero status, execute_cmd has
\* raised a command-execution error carrying that status and the token list
\* it was given, the task returned no file reference, and the subprocess of
\* the call was spawned exactly once.
C2_FailureRaises ==
    (status # None /\ status[1] # 0 /\ pc # "exited")
    => /\ pc = "raised"
       /\ raised = Some([type |-> "CalledProcessError",
                         args |-> <<status[1], spawned[Len(spawned)].cmd>>])
       /\ Len(results) = lane - 1
       /\ Cardinality({i \in DOMAIN spawned : spawned[i].lane = lane}) = 1

C2_Witness ==
    /\ pc = "raised" /\ status = Some(1)
    /\ raised # None /\ raised[1].type = "CalledProcessError"
    /\ lane = 2 /\ Len(spawned) = 2

\* C3 as stated: for sample, the token -2 is in the final sequence exactly
\* when num_reads is not null, and then it sits directly after the seed value
\* and directly before the input path.
C3_Original ==
    \A i \in SampleRuns :
        LET c == spawned[i].cmd
            p == latch2local(InputOf(spawned[i].lane))
        IN  /\ Has(c, <<"-","2">>) <=> num_reads # None
            /\ Has(c, <<"-","2">>)
               => \E k \in 2..(Len(c) - 1) :
                     /\ c[k] = <<"-","2">>
                     /\ c[k - 1] = IntStr(seed)
                     /\ c[k + 1] = p

\* C3 amended: for sample, the token directly after the seed value is -2
\* exactly when num_reads is neither null nor zero, and the input path then
\* follows it directly; otherwise the input path directly follows the seed
\* value.
C3_PairedFlagAfterSeed ==
    \A i \in SampleRuns :
        LET c == spawned[i].cmd
            p == latch2local(InputOf(spawned[i].lane))
        IN  /\ c[3] = <<"-","s">>
            /\ c[4] = IntStr(seed)
            /\ p # <<"-","2">>
            /\ IF num_reads # None /\ num_reads[1] # 0
               THEN c[5] = <<"-","2">> /\ c[6] = p
               ELSE c[5] = p

C3_Witness ==
    /\ SampleRuns # {}
    /\ num_reads = Some(100)
    /\ spawned[1].cmd[5] = <<"-","2">>
    /\ spawned[1].cmd[6] = latch2local(input_file[1])

\* the position of the input path in a sample command
PathIndex(c) == IF c[5] = <<"-","2">> THEN 6 ELSE 5

\* C4: for sample, the argument directly after the input path is the string
\* of fraction whenever fraction is set, the integer string of num_reads
\* whenever fraction is null, and never the string of a null value.
C4_Original ==
    \A i \in SampleRuns :
        LET c == spawned[i].cmd
            a == c[PathIndex(c) + 1]
        IN  /\ fraction # None => a = FloatStr(fraction[1])
            /\ (fraction = None /\ num_reads # None) => a = IntStr(num_reads[1])
            /\ a # NoneStr

\* C5 as stated: for seq, whenever num_bases is set the tokens -l and
\* str(num_bases) stand directly before the input path; when it is null no
\* -l token appears; seed, fraction and num_reads contribute no token.
C5_Original ==
    \A i \in SeqRuns :
        LET c == spawned[i].cmd
            p == latch2local(InputOf(spawned[i].lane))
        IN  /\ num_bases # None
               => c[3] = <<"-","l">> /\ c[4] = IntStr(num_bases[1]) /\ c[5] = p
            /\ num_bases = None => ~Has(c, <<"-","l">>)
            /\ c[Len(c) - 1] = <<">">>

\* C5 amended: for seq, whenever num_bases is set and not zero the tokens -l
\* and str(num_bases) stand directly before the input path; when it is null
\* or zero no -l token appears and the input path is the third token; the
\* input path is followed by the pipe stage or the redirect, so that seed,
\* fraction and num_reads contribute no token.
C5_LineOptionBeforePath ==
    \A i \in SeqRuns :
        LET c == spawned[i].cmd
            p == latch2local(InputOf(spawned[i].lane))
            k == IF num_bases # None /\ num_bases[1] # 0 THEN 5 ELSE 3
        IN  /\ c[1] = <<"s","e","q","t","k">> /\ c[2] = <<"s","e","q">>
            /\ IF num_bases # None /\ num_bases[1] # 0
               THEN c[3] = <<"-","l">> /\ c[4] = IntStr(num_bases[1])
               ELSE ~Has(c, <<"-","l">>)
            /\ c[k] = p
            /\ c[k + 1] \in {<<"|">>, <<">">>}
            /\ Len(c) \in {k + 2, k + 4}

C5_Witness ==
    /\ SeqRuns # {}
    /\ num_bases = Some(60)
    /\ spawned[1].cmd[3] = <<"-","l">>
    /\ spawned[1].cmd[4] = <<"6","0">>
    /\ spawned[1].cmd[5] = latch2local(input_file[1])

\* C6: for both commands the assembled sequence contains the pipe stage
\* (| and igzip, directly before the final redirect) if and only if the
\* remote path of the output reference ends in .gz; the last two tokens are
\* always > and the local output path.
C6_PipeStageIffGz ==
    \A i \in DOMAIN spawned :
        LET c == spawned[i].cmd
            n == Len(c)
            inp == InputOf(spawned[i].lane)
            gz == EndsWith(OutputOf(spawned[i].lane).remote_path, <<".","g","z">>)
        IN  /\ c[n - 1] = <<">">>
            /\ c[n] = <<"/","r","o","o","t","/">> \o basename(inp.remote_path)
            /\ gz <=> Has(c, <<"|">>)
            /\ gz <=> Has(c, <<"i","g","z","i","p">>)
            /\ gz <=> (c[n - 3] = <<"|">> /\ c[n - 2] = <<"i","g","z","i","p">>)
            /\ gz => \E k \in 3..(n - 4) : c[k] = latch2local(inp)

C6_Witness ==
    /\ Len(spawned) = 2
    /\ Has(spawned[1].cmd, <<"|">>)
    /\ ~Has(spawned[2].cmd, <<"|">>)
    /\ output_file_r2[1].remote_path = <<"l",":","/","o","/","g","z">>

\* C7: a call that completes after exit status 0 returns a file reference
\* whose local path is /root/<basename of the input's remote path>, which is
\* the redirect target of the executed command, and whose remote destination
\* is that of the output reference.
C7_ReturnedReference ==
    \A i \in DOMAIN spawned :
        LET l == spawned[i].lane
            c == spawned[i].cmd
        IN  l \in DOMAIN results
            => /\ results[l] # None
               /\ results[l][1].path
                    = <<"/","r","o","o","t","/">> \o basename(InputOf(l).remote_path)
               /\ results[l][1].path = c[Len(c)]
               /\ results[l][1].remote_path = OutputOf(l).remote_path

C7_Witness ==
    /\ pc = "done" /\ entry = "seqtk_task" /\ status = Some(0)
    /\ results = <<Some(LatchFile(<<"/","r","o","o","t","/","a"," ","b">>,
                                  <<"l",":","/","o","/","x",".","g","z">>))>>

\* the number of empty tokens among the first n tokens
RECURSIVE EmptyBefore(_, _)
EmptyBefore(toks, n) ==
    IF n = 0 THEN 0
    ELSE EmptyBefore(toks, n - 1) + (IF toks[n] = <<>> THEN 1 ELSE 0)

\* C8: the sequence handed to execute_cmd has no empty token, and it is the
\* sequence that was built with exactly its empty tokens removed, the other
\* tokens keeping their order.
C8_NoEmptyToken ==
    /\ \A i \in DOMAIN spawned : ~Has(spawned[i].cmd, <<>>)
    /\ ~Has(cmd, <<>>)
    /\ Len(cmd) = Len(unfiltered) - EmptyBefore(unfiltered, Len(unfiltered))
    /\ \A j \in DOMAIN unfiltered :
          unfiltered[j] # <<>> => cmd[j - EmptyBefore(unfiltered, j)] = unfiltered[j]
    /\ spawned # <<>> => spawned[Len(spawned)].cmd = cmd

C8_Witness ==
    /\ SampleRuns # {}
    /\ num_reads = None
    /\ Has(unfiltered, <<>>)
    /\ Len(cmd) = Len(unfiltered) - 1

\* C9: a command other than sample and seq makes seqtk_task fail with a
\* value error, before any message is emitted and any subprocess is spawned.
C9_Original ==
    (command \notin Command /\ input_file # None /\ output_file # None /\ pc # "call")
    => /\ pc = "raised"
       /\ raised # None /\ raised[1].type = "ValueError"
       /\ messages = <<>>
       /\ spawned = <<>>

\* C10: in a workflow run the task is invoked for R1 and then for R2 with the
\* same parameters; when both R2 references are present and the basenames of
\* the two input remote paths differ the two calls write to different local
\* paths, and when an R2 reference is absent the result list is
\* [R1 reference, null] with exactly one subprocess spawned.
C10_WorkflowLanes ==
    entry = "seqtk"
    => /\ \A i \in DOMAIN spawned : spawned[i].lane = i
       /\ (/\ Len(spawned) = 2
           /\ basename(input_file[1].remote_path) # basename(input_file_r2[1].remote_path))
          => LET c1 == spawned[1].cmd
                 c2 == spawned[2].cmd
             IN  /\ c1[Len(c1)] # c2[Len(c2)]
                 /\ c1[1] = c2[1] /\ c1[2] = c2[2]
       /\ (pc = "done" /\ (input_file_r2 = None \/ output_file_r2 = None))
          => /\ Len(results) = 2
             /\ results[1] # None
             /\ results[1][1].remote_path = output_file[1].remote_path
             /\ results[2] = None
             /\ Len(spawned) = 1

C10_Witness ==
    /\ entry = "seqtk" /\ pc = "done"
    /\ Len(spawned) = 2
    /\ input_file[1].remote_path = <<"l",":","/","d","/","a">>
    /\ input_file_r2[1].remote_path = <<"l",":","/","d","/","a"," ","b">>
    /\ spawned[1].cmd[Len(spawned[1].cmd)] # spawned[2].cmd[Len(spawned[2].cmd)]

====
